---- MODULE Spec2Model ----
(***************************************************************************)
(* A model of the pylon OPF engine: the OPFModel variable / constraint     *)
(* index bookkeeping (pylon/opf.py), the OPF.solve entry point with the    *)
(* reference bus check and Case.reset (pylon/opf.py, pylon/case.py) and    *)
(* the control flow of the primal-dual interior point loop                 *)
(* (pylon/pdipm.py).                                                       *)
(*                                                                         *)
(* The specifications share the variables; each leaves the variables of    *)
(* the other components at their initial values:                           *)
(*   SpecOM   - any sequence of OPFModel.add_var / add_constraint /        *)
(*              linear_constraints calls on one OPFModel;                  *)
(*   SpecOPF  - one OPF.solve call on a small Case;                        *)
(*   SpecIPM  - one pdipm call, numerical results drawn from a grid;       *)
(*   SpecPF   - one NewtonPFRoutine.solve call;                            *)
(*   SpecFn   - one call of a function of its arguments.                   *)
(***************************************************************************)
EXTENDS Integers, Sequences, FiniteSets, TLC

VARIABLES
    \* ---- OPFModel (opf.py) ----
    vars,             \* OPFModel.vars: sequence of Variable blocks
    lin_constraints,  \* OPFModel.lin_constraints: sequence of LinearConstraint
    nln_constraints,  \* OPFModel.nln_constraints: sequence of NonLinearConstraint
    ret,              \* the last OPFModel call: [op, name of the block passed, out]
    lc                \* the (A, l, u) the last call returned, if it was linear_constraints()

omv == <<vars, lin_constraints, nln_constraints, ret, lc>>

VARIABLES
    \* ---- OPF.solve and the Case (opf.py, case.py) ----
    case,        \* the Case under optimisation: [buses, branches, generators]
    case0,       \* the Case as it was when OPF.solve was called
    dc,          \* OPF.dc
    solver_klass,\* whether OPF.solve was given a solver_klass
    opc,         \* position in OPF.solve
    om,          \* what _construct_opf_model returned: "none", "error", "model"
    logged,      \* logger.error("OPF requires a single reference bus.") was called
    solver,      \* the solver class OPF.solve instantiated, "none" before
    solver_run,  \* solver.solve() was entered
    outcome      \* how OPF.solve ended: "none", "returned", "raised"

opfv == <<case, case0, dc, solver_klass, opc, om, logged, solver, solver_run, outcome>>

VARIABLES
    \* ---- pdipm (pdipm.py) ----
    ipc,        \* position in pdipm: "call", "loop", "break", "returned", "raised"
    max_it,     \* the max_it argument
    i,          \* iteration counter
    converged,  \* flag
    feascond, gradcond, compcond, costcond,   \* the last evaluation
    xnan,       \* any(isnan(x))
    alphap, alphad, gamma,
    info, output    \* the returned info and output; output.iterations = -1 before

ipmv == <<ipc, max_it, i, converged, feascond, gradcond, compcond, costcond,
          xnan, alphap, alphad, gamma, info, output>>

VARIABLES
    \* ---- NewtonPFRoutine.solve (routine/newton_pf.py) ----
    npc,          \* position in solve: "call", "checked", "done"
    iter,         \* the local iter
    iter_max,     \* self.iter_max
    pf_converged, \* self.converged
    f,            \* self.f, the mismatch vector, as the magnitudes of its entries
    iterated      \* number of calls of self.iterate()

pfv == <<npc, iter, iter_max, pf_converged, f, iterated>>

VARIABLES
    \* ---- functions of their arguments (case.py, pdipm.py) ----
    call,       \* the function called and its arguments: [op, ...]
    result      \* what the call produced: [op |-> "none"] before

fnv == <<call, result>>

allv == <<omv, opfv, ipmv, pfv, fnv>>

(***************************************************************************)
(* Bounds of the model.                                                    *)
(***************************************************************************)
MaxBlocks == 3    \* blocks accepted by one OPFModel, of all kinds together
MaxN == 2         \* unknowns of a variable block, rows of a constraint block

(***************************************************************************)
(* Helpers on sequences.                                                   *)
(***************************************************************************)
RECURSIVE SumN(_)
\* sum([b.N for b in blocks])
SumN(blocks) ==
    IF blocks = <<>> THEN 0 ELSE Head(blocks).N + SumN(Tail(blocks))

Names(blocks) == {blocks[k].name : k \in 1..Len(blocks)}


(***************************************************************************)
(* OPFModel (opf.py).  A Variable block is [name, N, i1, iN]; a            *)
(* LinearConstraint block is [name, N, M, vs, i1, iN] where (N, M) is the  *)
(* size of its coefficient matrix A and vs the names of the variable       *)
(* blocks its columns belong to; a NonLinearConstraint block is            *)
(* [name, N, i1, iN].                                                      *)
(***************************************************************************)
VarNames == {"Va", "Pg"}       \* names OPF gives its variable blocks
LinNames == {"Pmis", "Pf"}             \* names OPF gives linear blocks
NlnNames == {"Pmis", "Sf"}             \* names OPF gives nonlinear blocks

Inf == 9999                            \* numpy.Inf

\* The coefficient data of a linear block.  Every entry carries the block,
\* row and column it comes from, so that a misplaced or dropped entry of
\* the assembled matrix is visible; no entry is zero.
Tag(name) == IF name = "Pmis" THEN 1 ELSE 2
CoefA(name, r, c) == Tag(name) * 100 + r * 10 + c + 1
BoundL(name, r) == Tag(name) * 100 + r
BoundU(name, r) == Tag(name) * 100 + r + 50

var_N == SumN(vars)
lin_N == SumN(lin_constraints)
nln_N == SumN(nln_constraints)

\* OPFModel.get_var: the first block with the name; ValueError when none.
HasVar(name) == name \in Names(vars)
get_var(name) ==
    vars[CHOOSE k \in 1..Len(vars) :
            /\ vars[k].name = name
            /\ \A j \in 1..(k - 1) : vars[j].name # name]

RECURSIVE SumVarN(_)
\* nv of add_constraint: the sizes of the named variable blocks, summed
SumVarN(vs) ==
    IF vs = <<>> THEN 0 ELSE get_var(Head(vs)).N + SumVarN(Tail(vs))

\* The block add_var stores: offset = running total of the accepted blocks.
NewVarIN_off(N) == var_N + N
NewVarIN(N) == var_N + N - 1
NewVar(name, N) ==
    [name |-> name, N |-> N, i1 |-> var_N, iN |-> NewVarIN(N)]

AddVarDup_never(name) == FALSE
AddVarDup(name) == name \in Names(vars)

add_var(name, N) ==
    /\ IF AddVarDup(name)
       THEN /\ UNCHANGED vars
            /\ ret' = [op |-> "add_var", name |-> name, out |-> "None"]
       ELSE /\ vars' = Append(vars, NewVar(name, N))
            /\ ret' = [op |-> "add_var", name |-> name, out |-> "None"]
    /\ UNCHANGED <<lin_constraints, nln_constraints>>

\* The blocks add_constraint stores.
NewLin(name, N, M, vs) ==
    [name |-> name, N |-> N, M |-> M, vs |-> vs,
     i1 |-> lin_N, iN |-> lin_N + N - 1]

NewNln(name, N) ==
    [name |-> name, N |-> N, i1 |-> nln_N, iN |-> nln_N + N]

ConDup(name, cons) == name \in Names(cons)

add_constraint_lin(name, N, M, vs) ==
    /\ IF ConDup(name, lin_constraints)
       THEN /\ UNCHANGED lin_constraints
            /\ ret' = [op |-> "add_lin", name |-> name, out |-> "False"]
       ELSE IF \E k \in 1..Len(vs) : ~HasVar(vs[k])
       THEN \* get_var raises ValueError before the append
            /\ UNCHANGED lin_constraints
            /\ ret' = [op |-> "add_lin", name |-> name, out |-> "ValueError"]
       ELSE \* M != nv is logged (logger.error) and the block appended all the same
            /\ lin_constraints' = Append(lin_constraints, NewLin(name, N, M, vs))
            /\ ret' = [op |-> "add_lin", name |-> name, out |-> "True"]
    /\ UNCHANGED <<vars, nln_constraints>>

add_constraint_nln(name, N) ==
    /\ IF ConDup(name, nln_constraints)
       THEN /\ UNCHANGED nln_constraints
            /\ ret' = [op |-> "add_nln", name |-> name, out |-> "False"]
       ELSE /\ nln_constraints' = Append(nln_constraints, NewNln(name, N))
            /\ ret' = [op |-> "add_nln", name |-> name, out |-> "True"]
    /\ UNCHANGED <<vars, lin_constraints>>

\* add_constraint with neither a LinearConstraint nor a NonLinearConstraint
add_constraint_other ==
    /\ ret' = [op |-> "add_other", name |-> "", out |-> "ValueError"]
    /\ UNCHANGED <<vars, lin_constraints, nln_constraints>>


(***************************************************************************)
(* OPFModel.linear_constraints.  Matrices are functions over 0-based       *)
(* <<row, column>> pairs, vectors functions over 0-based rows.             *)
(***************************************************************************)
Rows(n) == 0..(n - 1)

\* Ak[:, k1:kN + 1] has the width of the target Ai[:, j1:jN + 1]: a slice that
\* runs past the last column of Ak is cut short and the assignment fails.
SliceFits(b, kN) == kN + 1 <= b.M

RECURSIVE FillAi(_, _, _, _)
\* the loop "for v in vsl" of linear_constraints, from position p of vs with
\* kN the last column of Ak used so far; ok = FALSE when an assignment fails
FillAi(Ai, b, p, kN) ==
    IF p > Len(b.vs) THEN [ok |-> TRUE, m |-> Ai]
    ELSE LET var == get_var(b.vs[p])
             j1  == var.i1
             jN  == var.iN
             k1  == kN + 1
             kN2 == kN + var.N
         IN  IF var.N > 0 /\ ~SliceFits(b, kN2) THEN [ok |-> FALSE, m |-> Ai]
             ELSE FillAi([rc \in DOMAIN Ai |->
                             IF j1 <= rc[2] /\ rc[2] <= jN
                             THEN CoefA(b.name, rc[1], k1 + (rc[2] - j1))
                             ELSE Ai[rc]],
                         b, p + 1, kN2)

\* Ai of one block: csr_matrix((lin.N, var_N)) filled by the loop
BlockAi(b) ==
    FillAi([rc \in Rows(b.N) \X Rows(var_N) |-> 0], b, 1, -1)

RECURSIVE LinLoop(_, _)
\* the loop "for lin in self.lin_constraints" from block k on, acc = (A, l, u)
LinLoop(acc, k) ==
    IF k > Len(lin_constraints) THEN acc
    ELSE LET lin == lin_constraints[k]
             Ai  == BlockAi(lin)
         IN  IF lin.N = 0 THEN LinLoop(acc, k + 1)
             ELSE IF ~Ai.ok THEN [acc EXCEPT !.ok = FALSE]
             ELSE LinLoop(
                    [ok |-> TRUE, rows |-> acc.rows, cols |-> acc.cols,
                     A |-> [rc \in DOMAIN acc.A |->
                              IF lin.i1 <= rc[1] /\ rc[1] <= lin.iN
                              THEN Ai.m[<<rc[1] - lin.i1, rc[2]>>]
                              ELSE acc.A[rc]],
                     l |-> [r \in DOMAIN acc.l |->
                              IF lin.i1 <= r /\ r <= lin.iN
                              THEN BoundL(lin.name, r - lin.i1) ELSE acc.l[r]],
                     u |-> [r \in DOMAIN acc.u |->
                              IF lin.i1 <= r /\ r <= lin.iN
                              THEN BoundU(lin.name, r - lin.i1) ELSE acc.u[r]]],
                    k + 1)

\* what linear_constraints() returns: (A, l, u) of lin_N rows and var_N
\* columns; ok = FALSE when an assignment failed and nothing is returned
LinearConstraintsValue ==
    LinLoop([ok |-> TRUE, rows |-> lin_N, cols |-> var_N,
             A |-> [rc \in Rows(lin_N) \X Rows(var_N) |-> 0],
             l |-> [r \in Rows(lin_N) |-> -Inf],
             u |-> [r \in Rows(lin_N) |-> Inf]], 1)

linear_constraints ==
    /\ ret' = [op |-> "linear_constraints", name |-> "",
               out |-> IF LinearConstraintsValue.ok THEN "Alu" ELSE "ValueError"]
    /\ lc' = LinearConstraintsValue
    /\ UNCHANGED <<vars, lin_constraints, nln_constraints>>

(***************************************************************************)
(* Calls on one OPFModel, in any order.                                    *)
(***************************************************************************)
NoValue == [ok |-> FALSE, rows |-> 0, cols |-> 0,
            A |-> [rc \in {} |-> 0], l |-> [r \in {} |-> 0], u |-> [r \in {} |-> 0]]

\* the vs lists a caller may pass: names without repetition, as OPF passes
\* them (["Va"], ["Va", "Pg"]); the variable blocks themselves are added in
\* either order, so a list may or may not follow the order of the blocks
VsLists == {<<>>, <<"Va">>, <<"Pg">>, <<"Va", "Pg">>}

NBlocks == Len(vars) + Len(lin_constraints) + Len(nln_constraints)

InitOM ==
    /\ vars = <<>>
    /\ lin_constraints = <<>>
    /\ nln_constraints = <<>>
    /\ ret = [op |-> "init", name |-> "", out |-> "None"]
    /\ lc = NoValue
    \* the other components stay as constructed
    /\ npc = "idle"
    /\ iter = 0
    /\ iter_max = 0
    /\ pf_converged = FALSE
    /\ f = <<>>
    /\ iterated = 0
    /\ call = [op |-> "none"]
    /\ result = [op |-> "none"]
    /\ case = [buses |-> <<>>, branches |-> <<>>, generators |-> <<>>]
    /\ case0 = [buses |-> <<>>, branches |-> <<>>, generators |-> <<>>]
    /\ dc = TRUE
    /\ solver_klass = FALSE
    /\ opc = "idle"
    /\ om = "none"
    /\ logged = FALSE
    /\ solver = "none"
    /\ solver_run = FALSE
    /\ outcome = "none"
    /\ ipc = "idle"
    /\ max_it = 0
    /\ i = 0
    /\ converged = FALSE
    /\ feascond = 0 /\ gradcond = 0 /\ compcond = 0 /\ costcond = 0
    /\ xnan = FALSE
    /\ alphap = 1 /\ alphad = 1
    /\ gamma = 1
    /\ info = FALSE
    /\ output = [iterations |-> -1, feascond |-> 0, gradcond |-> 0,
                 compcond |-> 0, costcond |-> 0]

\* The arguments of a call that is rejected before they are read (a duplicate
\* name, an unknown variable block) are drawn once, not once per value.
AddVar ==
    /\ NBlocks < MaxBlocks
    /\ \E name \in VarNames :
          \E N \in (IF name \in Names(vars) THEN {0} ELSE 0..MaxN) : add_var(name, N)
    /\ lc' = NoValue
    /\ UNCHANGED <<opfv, ipmv, pfv, fnv>>

AddLinearConstraint ==
    /\ NBlocks < MaxBlocks
    /\ \E name \in LinNames, vs \in VsLists :
          LET known == \A k \in 1..Len(vs) : HasVar(vs[k])
              nv    == IF known THEN SumVarN(vs) ELSE 0
              read  == known /\ name \notin Names(lin_constraints)
          IN  \E N \in (IF read THEN 0..MaxN ELSE {0}),
                 d \in (IF read THEN {-1, 0, 1} ELSE {0}) :
                    /\ nv + d >= 0
                    /\ add_constraint_lin(name, N, nv + d, vs)
    /\ lc' = NoValue
    /\ UNCHANGED <<opfv, ipmv, pfv, fnv>>

AddNonLinearConstraint ==
    /\ NBlocks < MaxBlocks
    /\ \E name \in NlnNames :
          \E N \in (IF name \in Names(nln_constraints) THEN {0} ELSE 0..MaxN) :
              add_constraint_nln(name, N)
    /\ lc' = NoValue
    /\ UNCHANGED <<opfv, ipmv, pfv, fnv>>

AddOtherConstraint ==
    /\ add_constraint_other
    /\ lc' = NoValue
    /\ UNCHANGED <<opfv, ipmv, pfv, fnv>>

LinearConstraints ==
    /\ linear_constraints
    /\ UNCHANGED <<opfv, ipmv, pfv, fnv>>

NextOM ==
    \/ AddVar
    \/ AddLinearConstraint
    \/ AddNonLinearConstraint
    \/ AddOtherConstraint
    \/ LinearConstraints


(***************************************************************************)
(* Claims about OPFModel, checked under SpecOM.                            *)
(***************************************************************************)
Prefix(seq, k) == SubSeq(seq, 1, k - 1)

\* block k of the list starts at the total size of the blocks before it and
\* spans exactly its N indices
Tiled(blocks) ==
    \A k \in 1..Len(blocks) :
        /\ blocks[k].i1 = SumN(Prefix(blocks, k))
        /\ blocks[k].iN = blocks[k].i1 + blocks[k].N - 1

\* every index below the total lies in the range of exactly one block
Partitioned(blocks) ==
    \A c \in Rows(SumN(blocks)) :
        Cardinality({k \in 1..Len(blocks) :
                        blocks[k].i1 <= c /\ c <= blocks[k].iN}) = 1

IsPrefix(a, b) == Len(a) <= Len(b) /\ SubSeq(b, 1, Len(a)) = a

\* C1: the accepted variable blocks tile the unknown vector in insertion
\* order (i1 = sum of the earlier sizes, iN = i1 + N - 1, ranges contiguous
\* and disjoint, covering 0..var_N-1), and a later call never changes an
\* accepted block.
C1_VarsTile ==
    /\ [](Tiled(vars) /\ Partitioned(vars))
    /\ [][IsPrefix(vars, vars')]_omv

C1_Witness ==
    /\ Len(vars) >= 2
    /\ vars[1].N = 2
    /\ vars[2].i1 = 2
    /\ ret.op = "add_var"

\* a call whose block name is already the name of an accepted block of the
\* same kind
DupCallStep ==
    \/ ret'.op = "add_var" /\ ret'.name \in Names(vars)
    \/ ret'.op = "add_lin" /\ ret'.name \in Names(lin_constraints)
    \/ ret'.op = "add_nln" /\ ret'.name \in Names(nln_constraints)

\* C2: add_var / add_constraint with the name of an accepted block of the same
\* kind does not raise and changes nothing: the three lists (hence the totals
\* and every block's i1/iN) are as before.
C2_DuplicateIsNoOp ==
    [][DupCallStep =>
          /\ vars' = vars
          /\ lin_constraints' = lin_constraints
          /\ nln_constraints' = nln_constraints
          /\ ret'.out # "ValueError"]_omv

C2_Witness ==
    /\ ret.op = "add_lin"
    /\ ret.out = "False"
    /\ Len(vars) >= 1
    /\ Len(lin_constraints) >= 1

\* C3: the constraint blocks of each kind tile their own row vector:
\* i1 = rows of the earlier blocks of the kind, iN = i1 + N - 1, no overlap.
C3_ConstraintsTile ==
    /\ Tiled(lin_constraints)
    /\ Tiled(nln_constraints)

\* column of A that receives column k of the coefficient matrix of block b:
\* the columns of b belong, in order, to the variable blocks b.vs names
RECURSIVE DestCol(_, _, _)
DestCol(vs, k, p) ==
    IF p > Len(vs) THEN -1
    ELSE IF k < get_var(vs[p]).N THEN get_var(vs[p]).i1 + k
    ELSE DestCol(vs, k - get_var(vs[p]).N, p + 1)

Declared(b, c) ==
    \E p \in 1..Len(b.vs) :
        get_var(b.vs[p]).i1 <= c /\ c <= get_var(b.vs[p]).iN

\* the (A, l, u) the claim describes for the blocks of the model
PlacedAsDeclared(v) ==
    /\ v.ok
    /\ v.rows = lin_N /\ v.cols = var_N
    /\ DOMAIN v.A = Rows(lin_N) \X Rows(var_N)
    /\ DOMAIN v.l = Rows(lin_N) /\ DOMAIN v.u = Rows(lin_N)
    /\ \A n \in 1..Len(lin_constraints) :
          LET b == lin_constraints[n] IN
          /\ \A r \in Rows(b.N) :
                /\ \A k \in Rows(b.M) :
                      /\ DestCol(b.vs, k, 1) \in Rows(var_N)
                      /\ v.A[<<b.i1 + r, DestCol(b.vs, k, 1)>>] = CoefA(b.name, r, k)
                /\ \A c \in Rows(var_N) :
                      ~Declared(b, c) => v.A[<<b.i1 + r, c>>] = 0
                /\ v.l[b.i1 + r] = BoundL(b.name, r)
                /\ v.u[b.i1 + r] = BoundU(b.name, r)

\* C4: linear_constraints() returns (A, l, u) with lin_N rows and var_N
\* columns; rows i1..iN of A hold the block's coefficient columns in the
\* column ranges of the variable blocks it names, zero in the columns of the
\* blocks it does not name; l and u hold the block's bounds in those rows.
C4_LinearConstraintsPlaced ==
    ret.op = "linear_constraints" => PlacedAsDeclared(lc)

\* the same, for a model all of whose linear blocks have as many columns as
\* the variable blocks they name have unknowns
DimensionsMatch ==
    \A n \in 1..Len(lin_constraints) :
        lin_constraints[n].M = SumVarN(lin_constraints[n].vs)

LinearConstraintsPlacedWhenMatching ==
    (ret.op = "linear_constraints" /\ DimensionsMatch) => PlacedAsDeclared(lc)

\* C7: a LinearConstraint whose column count differs from the summed sizes of
\* the variable blocks it names is never appended to lin_constraints.
C7_MismatchRejected == DimensionsMatch


(***************************************************************************)
(* OPF.solve on a Case (opf.py, case.py).                                  *)
(*                                                                         *)
(* A Case holds buses, branches and generators.  Of each component the     *)
(* model keeps the fields OPF.solve reads or writes before a solver runs:  *)
(* the bus type, the online flags, the topology, and the result fields     *)
(* that Case.reset zeroes; p_demand and v_magnitude_guess stand for the    *)
(* input fields.                                                           *)
(***************************************************************************)
MaxBus == 2      \* buses of the Case

PV == "PV"
PQ == "PQ"
REFERENCE == "ref"
ISOLATED == "isolated"
BusTypes == {PV, PQ, REFERENCE, ISOLATED}

\* Bus.reset
BusReset(bus) ==
    [bus EXCEPT !.v_magnitude = 0, !.v_angle = 0, !.p_lambda = 0,
                !.q_lambda = 0, !.mu_vmin = 0, !.mu_vmax = 0]

\* Branch.reset
BranchReset(branch) ==
    [branch EXCEPT !.p_from = 0, !.p_to = 0, !.q_from = 0, !.q_to = 0,
                   !.mu_s_from = 0, !.mu_s_to = 0]

\* Generator.reset
GeneratorReset_none(generator) == generator
GeneratorReset(generator) ==
    [generator EXCEPT !.mu_pmin = 0, !.mu_pmax = 0]

\* Case.reset
CaseReset(c) ==
    [buses      |-> [k \in DOMAIN c.buses |-> BusReset(c.buses[k])],
     branches   |-> [k \in DOMAIN c.branches |-> BranchReset(c.branches[k])],
     generators |-> [k \in DOMAIN c.generators |-> GeneratorReset(c.generators[k])]]

\* Case.connected_buses, Case.online_branches, Case.online_generators: the
\* positions, in the case's lists, of the objects returned
connected_buses(c) == {k \in DOMAIN c.buses : c.buses[k].type # ISOLATED}
online_branches(c) == {k \in DOMAIN c.branches : c.branches[k].online}
online_generators(c) == {k \in DOMAIN c.generators : c.generators[k].online}

DeactivateIsolated_branches_only(c) ==
    [c EXCEPT
       !.branches = [k \in DOMAIN c.branches |->
          IF \/ c.buses[c.branches[k].from_bus].type = ISOLATED
             \/ c.buses[c.branches[k].to_bus].type = ISOLATED
          THEN [c.branches[k] EXCEPT !.online = FALSE] ELSE c.branches[k]]]

\* Case.deactivate_isolated
DeactivateIsolated(c) ==
    [c EXCEPT
       !.branches = [k \in DOMAIN c.branches |->
          IF \/ c.buses[c.branches[k].from_bus].type = ISOLATED
             \/ c.buses[c.branches[k].to_bus].type = ISOLATED
          THEN [c.branches[k] EXCEPT !.online = FALSE] ELSE c.branches[k]],
       !.generators = [k \in DOMAIN c.generators |->
          IF c.buses[c.generators[k].bus].type = ISOLATED
          THEN [c.generators[k] EXCEPT !.online = FALSE] ELSE c.generators[k]]]

\* OPF._ref_check: refs, the reference buses of the case
Refs(c) == {k \in DOMAIN c.buses : c.buses[k].type = REFERENCE}
OneRef(c) == Cardinality(Refs(c)) = 1

\* A component as a reader builds it (results zero) or as an earlier solve
\* left it (results set).
NewBus(type, solved) ==
    [type |-> type, v_magnitude_guess |-> 1, p_demand |-> 3,
     v_magnitude |-> IF solved THEN 1 ELSE 0,
     v_angle     |-> IF solved THEN 2 ELSE 0,
     p_lambda    |-> IF solved THEN 3 ELSE 0,
     q_lambda    |-> IF solved THEN 4 ELSE 0,
     mu_vmin     |-> IF solved THEN 5 ELSE 0,
     mu_vmax     |-> IF solved THEN 6 ELSE 0]

NewBranch(from_bus, to_bus, online, solved) ==
    [from_bus |-> from_bus, to_bus |-> to_bus, online |-> online,
     r |-> 1, x |-> 2,
     p_from    |-> IF solved THEN 1 ELSE 0,
     p_to      |-> IF solved THEN 2 ELSE 0,
     q_from    |-> IF solved THEN 3 ELSE 0,
     q_to      |-> IF solved THEN 4 ELSE 0,
     mu_s_from |-> IF solved THEN 5 ELSE 0,
     mu_s_to   |-> IF solved THEN 6 ELSE 0]

NewGenerator(bus, online, solved) ==
    [bus |-> bus, online |-> online, p_max |-> 2,
     p |-> IF solved THEN 2 ELSE 1, q |-> IF solved THEN 1 ELSE 0,
     mu_pmin |-> IF solved THEN 1 ELSE 0,
     mu_pmax |-> IF solved THEN 2 ELSE 0]

\* The cases OPF.solve is called on: MaxBus buses of any type, a branch from
\* each bus to the next, a generator at each bus, any online flags.
Cases ==
    {[buses      |-> [k \in 1..MaxBus |-> NewBus(types[k], solved)],
      branches   |-> [k \in 1..(MaxBus - 1) |-> NewBranch(k, k + 1, lon[k], solved)],
      generators |-> [k \in 1..MaxBus |-> NewGenerator(k, gon[k], solved)]] :
        types \in [1..MaxBus -> BusTypes],
        lon \in [1..(MaxBus - 1) -> BOOLEAN],
        gon \in [1..MaxBus -> BOOLEAN],
        solved \in BOOLEAN}

InitOPF ==
    /\ case \in Cases
    /\ case0 = case
    /\ dc \in BOOLEAN
    /\ solver_klass \in BOOLEAN
    /\ opc = "solve"
    /\ om = "none"
    /\ logged = FALSE
    /\ solver = "none"
    /\ solver_run = FALSE
    /\ outcome = "none"
    \* the other components stay as constructed
    /\ npc = "idle"
    /\ iter = 0
    /\ iter_max = 0
    /\ pf_converged = FALSE
    /\ f = <<>>
    /\ iterated = 0
    /\ call = [op |-> "none"]
    /\ result = [op |-> "none"]
    /\ vars = <<>>
    /\ lin_constraints = <<>>
    /\ nln_constraints = <<>>
    /\ ret = [op |-> "init", name |-> "", out |-> "None"]
    /\ lc = NoValue
    /\ ipc = "idle"
    /\ max_it = 0
    /\ i = 0
    /\ converged = FALSE
    /\ feascond = 0 /\ gradcond = 0 /\ compcond = 0 /\ costcond = 0
    /\ xnan = FALSE
    /\ alphap = 1 /\ alphad = 1
    /\ gamma = 1
    /\ info = FALSE
    /\ output = [iterations |-> -1, feascond |-> 0, gradcond |-> 0,
                 compcond |-> 0, costcond |-> 0]

\* _construct_opf_model: self.case.reset()
Reset ==
    /\ opc = "solve"
    /\ case' = CaseReset(case)
    /\ opc' = "reset"
    /\ UNCHANGED <<case0, dc, solver_klass, om, logged, solver, solver_run, outcome>>
    /\ UNCHANGED <<omv, ipmv, pfv, fnv>>

\* _construct_opf_model: oneref, refs = self._ref_check(case);
\* if not oneref: return {"status": "error"}
RefCheck ==
    /\ opc = "reset"
    /\ IF OneRef(case)
       THEN /\ opc' = "ref_ok"
            /\ UNCHANGED <<om, logged>>
       ELSE /\ logged' = TRUE
            /\ om' = "error"
            /\ opc' = "ref_error"
    /\ UNCHANGED <<case, case0, dc, solver_klass, solver, solver_run, outcome>>
    /\ UNCHANGED <<omv, ipmv, pfv, fnv>>

\* _construct_opf_model: self._remove_isolated(case)
RemoveIsolated ==
    /\ opc = "ref_ok"
    /\ case' = DeactivateIsolated(case)
    /\ opc' = "isolated_removed"
    /\ UNCHANGED <<case0, dc, solver_klass, om, logged, solver, solver_run, outcome>>
    /\ UNCHANGED <<omv, ipmv, pfv, fnv>>

\* _construct_opf_model: the variables and constraints, OPFModel(case),
\* add_vars, add_constraints; return opf
BuildModel ==
    /\ opc = "isolated_removed"
    /\ om' = "model"
    /\ opc' = "model_built"
    /\ UNCHANGED <<case, case0, dc, solver_klass, logged, solver, solver_run, outcome>>
    /\ UNCHANGED <<omv, ipmv, pfv, fnv>>

\* OPF.solve: the solver class instantiated with what _construct_opf_model
\* returned
SolverClass == IF solver_klass THEN "solver_klass"
               ELSE IF dc THEN "DCOPFSolver" ELSE "PDIPMSolver"

\* DCOPFSolver.__init__ reads self.om.var_N, which the dict {"status": "error"}
\* does not have: AttributeError
ConstructSolver ==
    /\ opc \in {"ref_error", "model_built"}
    /\ solver' = SolverClass
    /\ IF SolverClass = "DCOPFSolver" /\ om = "error"
       THEN /\ outcome' = "raised"
            /\ opc' = "done"
       ELSE /\ opc' = "solver_constructed"
            /\ UNCHANGED outcome
    /\ UNCHANGED <<case, case0, dc, solver_klass, om, logged, solver_run>>
    /\ UNCHANGED <<omv, ipmv, pfv, fnv>>

\* OPF.solve: result = <solver>.solve().  PDIPMSolver.solve reads self.om.case:
\* AttributeError on the dict.  A solver_klass is the caller's code, and a
\* solver given a model ends by returning or by raising.
RunSolver ==
    /\ opc = "solver_constructed"
    /\ solver_run' = TRUE
    /\ \E out \in {"returned", "raised"} :
          /\ (solver = "PDIPMSolver" /\ om = "error") => out = "raised"
          /\ outcome' = out
    /\ opc' = "done"
    /\ UNCHANGED <<case, case0, dc, solver_klass, om, logged, solver>>
    /\ UNCHANGED <<omv, ipmv, pfv, fnv>>

NextOPF ==
    \/ Reset
    \/ RefCheck
    \/ RemoveIsolated
    \/ BuildModel
    \/ ConstructSolver
    \/ RunSolver


(***************************************************************************)
(* pdipm (pdipm.py): the control flow of the interior point loop.          *)
(*                                                                         *)
(* The numbers the loop tests come out of the callbacks and of the linear  *)
(* solve; the model draws them from a grid.  A condition takes the values  *)
(* 0 (below its tolerance), 1 (equal to it) and 2 (above it); a step       *)
(* length 0 (below alpha_min) or 1 (alpha_min); gamma 0 (below EPS),       *)
(* 1 (EPS), 2 (1 / EPS) or 3 (above 1 / EPS).                              *)
(***************************************************************************)
MaxIt == 3       \* largest max_it a caller passes

feastol == 1
gradtol == 1
comptol == 1
costtol == 1
alpha_min == 1
EPS == 1
InvEPS == 2      \* 1 / EPS

CondGrid == 0..2
AlphaGrid == 0..1
GammaGrid == 0..3

\* if feascond < feastol and gradcond < gradtol and
\*         compcond < comptol and costcond < costtol:
ConvTest_nocost(fe, gr, co, cs) ==
    fe < feastol /\ gr < gradtol /\ co < comptol
ConvTest(fe, gr, co, cs) ==
    fe < feastol /\ gr < gradtol /\ co < comptol /\ cs < costtol

\* if any(isnan(x)) or alphap < alpha_min or alphad < alpha_min or
\*         gamma < EPS or gamma > 1 / EPS:
NumericallyFailed_nodual(xn, ap, ad, g) ==
    xn \/ ap < alpha_min \/ g < EPS \/ g > InvEPS
NumericallyFailed(xn, ap, ad, g) ==
    xn \/ ap < alpha_min \/ ad < alpha_min \/ g < EPS \/ g > InvEPS

\* while (not converged and i < max_it):
LoopCond_le == ~converged /\ i <= max_it
LoopCond == ~converged /\ i < max_it

NoOutput == [iterations |-> -1, feascond |-> 0, gradcond |-> 0,
             compcond |-> 0, costcond |-> 0]

InitIPM ==
    /\ ipc = "call"
    /\ max_it \in 0..MaxIt
    /\ i = 0
    /\ converged = FALSE
    /\ feascond = 0 /\ gradcond = 0 /\ compcond = 0 /\ costcond = 0
    /\ xnan = FALSE
    /\ alphap = 1 /\ alphad = 1
    /\ gamma = 1
    /\ info = FALSE
    /\ output = NoOutput
    \* the other components stay as constructed
    /\ npc = "idle"
    /\ iter = 0
    /\ iter_max = 0
    /\ pf_converged = FALSE
    /\ f = <<>>
    /\ iterated = 0
    /\ call = [op |-> "none"]
    /\ result = [op |-> "none"]
    /\ vars = <<>>
    /\ lin_constraints = <<>>
    /\ nln_constraints = <<>>
    /\ ret = [op |-> "init", name |-> "", out |-> "None"]
    /\ lc = NoValue
    /\ case = [buses |-> <<>>, branches |-> <<>>, generators |-> <<>>]
    /\ case0 = [buses |-> <<>>, branches |-> <<>>, generators |-> <<>>]
    /\ dc = TRUE
    /\ solver_klass = FALSE
    /\ opc = "idle"
    /\ om = "none"
    /\ logged = FALSE
    /\ solver = "none"
    /\ solver_run = FALSE
    /\ outcome = "none"

\* Lines 86-159: the evaluation at x0.  f0 = f, so costcond = 0.
Start ==
    /\ ipc = "call"
    /\ \E fe \in CondGrid, gr \in CondGrid, co \in CondGrid :
          /\ feascond' = fe /\ gradcond' = gr /\ compcond' = co
          /\ costcond' = 0
          /\ converged' = ConvTest(fe, gr, co, 0)
    /\ ipc' = "loop"
    /\ UNCHANGED <<max_it, i, xnan, alphap, alphad, gamma, info, output>>
    /\ UNCHANGED <<omv, opfv, pfv, fnv>>

\* Lines 162-271: one pass of the loop body, from the loop test to the
\* convergence and divergence tests at its end.
Iterate ==
    /\ ipc = "loop"
    /\ LoopCond
    /\ i' = i + 1
    /\ \E fe \in CondGrid, gr \in CondGrid, co \in CondGrid, cs \in CondGrid,
          xn \in BOOLEAN, ap \in AlphaGrid, ad \in AlphaGrid, g \in GammaGrid :
          /\ feascond' = fe /\ gradcond' = gr /\ compcond' = co /\ costcond' = cs
          /\ xnan' = xn /\ alphap' = ap /\ alphad' = ad /\ gamma' = g
          /\ converged' = ConvTest(fe, gr, co, cs)
          /\ ipc' = IF ~ConvTest(fe, gr, co, cs) /\ NumericallyFailed(xn, ap, ad, g)
                    THEN "break" ELSE "loop"
    /\ UNCHANGED <<max_it, info, output>>
    /\ UNCHANGED <<omv, opfv, pfv, fnv>>

\* A pass of the loop body that ends in an exception: linsolve (line 177)
\* raises ArithmeticError on a singular matrix and nothing catches it.
IterateRaise ==
    /\ ipc = "loop"
    /\ LoopCond
    /\ i' = i + 1
    /\ ipc' = "raised"
    /\ UNCHANGED <<max_it, converged, feascond, gradcond, compcond, costcond,
                   xnan, alphap, alphad, gamma, info, output>>
    /\ UNCHANGED <<omv, opfv, pfv, fnv>>

\* Lines 273-309: the loop has ended; info = converged and output are returned.
Return ==
    /\ \/ ipc = "loop" /\ ~LoopCond
       \/ ipc = "break"
    /\ info' = converged
    /\ output' = [iterations |-> i, feascond |-> feascond, gradcond |-> gradcond,
                  compcond |-> compcond, costcond |-> costcond]
    /\ ipc' = "returned"
    /\ UNCHANGED <<max_it, i, converged, feascond, gradcond, compcond, costcond,
                   xnan, alphap, alphad, gamma>>
    /\ UNCHANGED <<omv, opfv, pfv, fnv>>

NextIPM ==
    \/ Start
    \/ Iterate
    \/ IterateRaise
    \/ Return

(***************************************************************************)
(* NewtonPFRoutine.solve (routine/newton_pf.py).  The mismatch vector f is *)
(* kept as the magnitudes abs(F) of its entries on the grid 0 (below the   *)
(* tolerance), 1 (the tolerance), 2 (above it).                            *)
(***************************************************************************)
MaxIterMax == 3     \* largest iter_max of a routine
MaxF == 3           \* entries of the mismatch vector

tolerance == 1      \* self.tolerance
FGrid == 0..2

\* the mismatch vectors _evaluate_function may produce
Mismatches ==
    UNION {[1..n -> FGrid] : n \in 1..MaxF}

RECURSIVE MaxAbs(_)
\* normF = max(abs(F))
MaxAbs(F) ==
    IF Len(F) = 1 THEN F[1]
    ELSE LET m == MaxAbs(Tail(F)) IN IF F[1] > m THEN F[1] ELSE m

\* NewtonPFRoutine._check_convergence
check_convergence(F) == MaxAbs(F) < tolerance

InitPF ==
    /\ npc = "call"
    /\ iter = 0
    /\ iter_max \in 0..MaxIterMax
    /\ pf_converged = FALSE
    /\ f = <<>>
    /\ iterated = 0
    \* the other components stay as constructed
    /\ vars = <<>>
    /\ lin_constraints = <<>>
    /\ nln_constraints = <<>>
    /\ ret = [op |-> "init", name |-> "", out |-> "None"]
    /\ lc = NoValue
    /\ case = [buses |-> <<>>, branches |-> <<>>, generators |-> <<>>]
    /\ case0 = [buses |-> <<>>, branches |-> <<>>, generators |-> <<>>]
    /\ dc = TRUE
    /\ solver_klass = FALSE
    /\ opc = "idle"
    /\ om = "none"
    /\ logged = FALSE
    /\ solver = "none"
    /\ solver_run = FALSE
    /\ outcome = "none"
    /\ ipc = "idle"
    /\ max_it = 0
    /\ i = 0
    /\ converged = FALSE
    /\ feascond = 0 /\ gradcond = 0 /\ compcond = 0 /\ costcond = 0
    /\ xnan = FALSE
    /\ alphap = 1 /\ alphad = 1
    /\ gamma = 1
    /\ info = FALSE
    /\ output = NoOutput
    /\ call = [op |-> "none"]
    /\ result = [op |-> "none"]

\* solve, lines 142-150: the set-up, self.converged = False,
\* self._evaluate_function(), self._check_convergence(), iter = 0
PFEvaluate ==
    /\ npc = "call"
    /\ \E F \in Mismatches :
          /\ f' = F
          /\ pf_converged' = check_convergence(F)
    /\ iter' = 0
    /\ npc' = "checked"
    /\ UNCHANGED <<iter_max, iterated>>
    /\ UNCHANGED <<omv, opfv, ipmv, fnv>>

\* solve, lines 153-162: the while loop is commented out; the outcome is
\* logged and solve returns
PFFinish ==
    /\ npc = "checked"
    /\ npc' = "done"
    /\ UNCHANGED <<iter, iter_max, pf_converged, f, iterated>>
    /\ UNCHANGED <<omv, opfv, ipmv, fnv>>

NextPF ==
    \/ PFEvaluate
    \/ PFFinish

(***************************************************************************)
(* Floating point values of the functions below: a value is <<n, d>> with  *)
(* d >= 0, the quotient n / d when d > 0; <<1, 0>> is inf, <<-1, 0>> is    *)
(* -inf and <<0, 0>> is nan, as IEEE division and addition produce them.   *)
(***************************************************************************)
Sgn(n) == IF n > 0 THEN 1 ELSE IF n < 0 THEN -1 ELSE 0

Num(n) == <<n, 1>>
IsFinite(a) == a[2] # 0
IsNaN(a) == a[1] = 0 /\ a[2] = 0

RECURSIVE GCD(_, _)
GCD(a, b) == IF b = 0 THEN a ELSE GCD(b, a % b)

\* the one pair that stands for the value n / d, d > 0
Reduce(n, d) ==
    LET g == GCD(IF n < 0 THEN -n ELSE n, d)
    IN  <<n \div g, d \div g>>

\* a / b
DivF(a, b) ==
    LET n == a[1] * b[2]
        d == a[2] * b[1]
    IN  IF d = 0 THEN <<Sgn(n), 0>>
        ELSE IF d < 0 THEN Reduce(-n, -d) ELSE Reduce(n, d)

\* a * b
MulF(a, b) ==
    IF a[2] * b[2] = 0 THEN <<Sgn(a[1] * b[1]), 0>>
    ELSE Reduce(a[1] * b[1], a[2] * b[2])

NegF(a) == <<-a[1], a[2]>>

\* a + b
AddF(a, b) ==
    IF IsFinite(a) /\ IsFinite(b)
    THEN Reduce(a[1] * b[2] + b[1] * a[2], a[2] * b[2])
    ELSE IF IsNaN(a) \/ IsNaN(b) THEN <<0, 0>>
    ELSE IF ~IsFinite(a) /\ ~IsFinite(b)
         THEN (IF a[1] = b[1] THEN a ELSE <<0, 0>>)
    ELSE IF IsFinite(a) THEN b ELSE a

RECURSIVE SumF(_)
SumF(seq) == IF seq = <<>> THEN Num(0) ELSE AddF(Head(seq), SumF(Tail(seq)))

(***************************************************************************)
(* Case.B (case.py): the DC susceptance data of the in-service branches    *)
(* of a case of two connected buses.  A branch is                          *)
(* [from_bus, to_bus, x, ratio, phase_shift], buses numbered from 0.       *)
(***************************************************************************)
BusIdx == 0..1       \* buses.index(...) of the connected buses
MaxBranch == 2       \* in-service branches of the case

XGrid == 0..2        \* br.x
RatioGrid == {0, 2}  \* br.ratio, 0 for a line
ShiftGrid == 0..1    \* br.phase_shift, degrees

OnlineBranches ==
    {br \in [from_bus : BusIdx, to_bus : BusIdx, x : XGrid,
             ratio : RatioGrid, phase_shift : ShiftGrid] :
        br.from_bus # br.to_bus}

\* b = div(online, matrix([br.x for br in branches])); tap = 1.0 unless
\* branch.ratio != 0.0; b = div(b, tap)
SeriesB(br) ==
    DivF(DivF(Num(1), Num(br.x)), Num(IF br.ratio # 0 THEN br.ratio ELSE 1))

\* B = ff + ft + tf + tt: entry (r, c) adds b of the branches from r to r
\* or to c to c when r = c, and -b of the branches between r and c
Bentry(branches, r, c) ==
    SumF([k \in 1..Len(branches) |->
            LET br == branches[k]
                b  == SeriesB(br)
                ff == br.from_bus = r /\ br.from_bus = c
                tt == br.to_bus = r /\ br.to_bus = c
                ft == br.from_bus = r /\ br.to_bus = c
                tf == br.to_bus = r /\ br.from_bus = c
            IN  IF ff \/ tt THEN b
                ELSE IF ft \/ tf THEN NegF(b) ELSE Num(0)])

\* what Case.B returns: B, Bsrc, p_businj, p_srcinj (angles in degrees
\* times pi / 180)
CaseBValue(branches) ==
    LET b        == [k \in 1..Len(branches) |-> SeriesB(branches[k])]
        p_srcinj == [k \in 1..Len(branches) |->
                        MulF(b[k], Num(branches[k].phase_shift))]
    IN  [op |-> "B", out |-> "returned",
         B |-> [rc \in BusIdx \X BusIdx |->
                   Bentry(branches, rc[1], rc[2])],
         Bsrc |-> [k \in 1..Len(branches) |-> <<b[k], NegF(b[k])>>],
         p_srcinj |-> p_srcinj,
         p_businj |-> [r \in BusIdx |->
                         SumF([k \in 1..Len(branches) |->
                            IF branches[k].from_bus = r THEN p_srcinj[k]
                            ELSE IF branches[k].to_bus = r THEN NegF(p_srcinj[k])
                            ELSE Num(0)])]]

BCalls(c) ==
    \E n \in 1..MaxBranch : \E brs \in [1..n -> OnlineBranches] :
        c = [op |-> "B", branches |-> brs]

\* The division of a double by 0.0 inside cvxopt's div gives inf or nan, or
\* raises ZeroDivisionError, depending on the build of cvxopt.
CaseB ==
    /\ call.op = "B"
    /\ result.op = "none"
    /\ \/ result' = CaseBValue(call.branches)
       \/ /\ \E k \in 1..Len(call.branches) : call.branches[k].x = 0
          /\ result' = [op |-> "B", out |-> "ZeroDivisionError"]
    /\ UNCHANGED call
    /\ UNCHANGED <<omv, opfv, ipmv, pfv>>

(***************************************************************************)
(* Case.dSbus_dV (case.py) and dS_dV (routine/ac_opf.py).  A complex       *)
(* number is <<re, im>>, each part a floating point value.  The voltages   *)
(* lie on the axes, so that abs(v) is exact.                               *)
(***************************************************************************)
CNum(re, im) == <<Num(re), Num(im)>>
CAdd(a, b) == <<AddF(a[1], b[1]), AddF(a[2], b[2])>>
CNeg(a) == <<NegF(a[1]), NegF(a[2])>>
CMul(a, b) ==
    <<AddF(MulF(a[1], b[1]), NegF(MulF(a[2], b[2]))),
      AddF(MulF(a[1], b[2]), MulF(a[2], b[1]))>>
CConj(a) == <<a[1], NegF(a[2])>>
\* a complex number divided by a real one
CDivR(a, r) == <<DivF(a[1], r), DivF(a[2], r)>>
CHasNaN(a) == IsNaN(a[1]) \/ IsNaN(a[2])

BusNo == 1..2        \* rows and columns of Y, entries of v

\* the voltages and admittances of a call: <<re, im>> with integer parts
VGrid == {<<0, 0>>, <<1, 0>>, <<0, 1>>, <<-2, 0>>}
YGrid == {<<0, 0>>, <<1, 0>>, <<0, -1>>}

AbsV(c) == (IF c[1] < 0 THEN -c[1] ELSE c[1]) + (IF c[2] < 0 THEN -c[2] ELSE c[2])

\* what dSbus_dV returns for the n x n matrix Y and the voltages v, both
\* over 1..n
dSbus_dV_Value(Y, v) ==
    LET n     == Len(v)
        V(k)  == CNum(v[k][1], v[k][2])
        Yc(r, k) == CNum(Y[<<r, k>>][1], Y[<<r, k>>][2])
        \* i = Y * v
        I(r)  == LET t == [k \in 1..n |-> CMul(Yc(r, k), V(k))]
                 IN  <<SumF([k \in 1..n |-> t[k][1]]), SumF([k \in 1..n |-> t[k][2]])>>
        \* diag_vnorm = spdiag(div(v, abs(v)))
        vnorm(k) == CDivR(V(k), Num(AbsV(v[k])))
        \* a sparse product leaves the structural zeros of Y out
        Ytimes(r, k, d) == IF Y[<<r, k>>] = <<0, 0>> THEN CNum(0, 0)
                           ELSE CMul(Yc(r, k), d)
        diag(r, k, d) == IF r = k THEN d ELSE CNum(0, 0)
    IN  [op |-> "dSbus_dV", out |-> "returned",
         \* diag_v * conj(Y * diag_vnorm) + conj(diag_i) * diag_vnorm
         dS_dVm |-> [rk \in (1..n) \X (1..n) |->
            CAdd(IF Y[rk] = <<0, 0>> THEN CNum(0, 0)
                 ELSE CMul(V(rk[1]), CConj(Ytimes(rk[1], rk[2], vnorm(rk[2])))),
                 diag(rk[1], rk[2], CMul(CConj(I(rk[2])), vnorm(rk[2]))))],
         \* j * diag_v * conj(diag_i - Y * diag_v)
         dS_dVa |-> [rk \in (1..n) \X (1..n) |->
            CMul(CNum(0, 1),
                 CMul(V(rk[1]),
                      CConj(CAdd(diag(rk[1], rk[2], I(rk[2])),
                                 CNeg(Ytimes(rk[1], rk[2], V(rk[2])))))))]]

DSCalls(c) ==
    \E Y \in [BusNo \X BusNo -> YGrid], v \in [BusNo -> VGrid] :
        c = [op |-> "dSbus_dV", Y |-> Y, v |-> v]

\* The division 0 / 0.0 inside cvxopt's div gives nan, or raises
\* ZeroDivisionError, depending on the build of cvxopt.
dSbus_dV ==
    /\ call.op = "dSbus_dV"
    /\ result.op = "none"
    /\ \/ result' = dSbus_dV_Value(call.Y, call.v)
       \/ /\ \E k \in 1..Len(call.v) : AbsV(call.v[k]) = 0
          /\ result' = [op |-> "dSbus_dV", out |-> "ZeroDivisionError"]
    /\ UNCHANGED call
    /\ UNCHANGED <<omv, opfv, ipmv, pfv>>

(***************************************************************************)
(* Case.get_admittance_matrix (case.py) on a case of two buses whose       *)
(* branches run from bus 0 to bus 1.  A branch is                          *)
(* [online, z, b, ratio, phase_shift] with z = <<r, x>>; a phase shift is  *)
(* 0 or 90 degrees, so that exp(j * shift) is 1 or j.                      *)
(***************************************************************************)
base_mva == 100

ZGrid == {<<0, 0>>, <<0, 1>>, <<1, 2>>}     \* <<e.r, e.x>>
BcGrid == {0, 2}                            \* e.b
TapGrid == {<<0, 0>>, <<1, 0>>, <<2, 90>>}   \* <<e.ratio, e.phase_shift>>
GShuntGrid == {0, 1}                        \* v.g_shunt, of every bus

YBranches ==
    \* b and tap of a branch that is out of service have no effect
    {br \in [online : BOOLEAN, z : ZGrid, b : BcGrid, tap : TapGrid] :
        br.online \/ (br.b = 0 /\ br.tap = <<1, 0>>)}

\* a / b for complex a and b
CDiv(a, b) ==
    CDivR(CMul(a, CConj(b)), AddF(MulF(b[1], b[1]), MulF(b[2], b[2])))

Online(br) == IF br.online THEN 1 ELSE 0

\* Ys = div(online, (r + j * x))
Ys(br) == CDiv(CNum(Online(br), 0), CNum(br.z[1], br.z[2]))

\* tap = mul(tap, exp(j * shift)), tap = 1.0 unless e.ratio != 0.0
Tap(br) ==
    CMul(CNum(IF br.tap[1] # 0 THEN br.tap[1] ELSE 1, 0),
         IF br.tap[2] = 0 THEN CNum(1, 0) ELSE CNum(0, 1))

\* Ytt = Ys + j * Bc / 2, Bc = mul(online, b)
Ytt(br) == CAdd(Ys(br), <<Num(0), DivF(Num(Online(br) * br.b), Num(2))>>)
\* Yff = div(Ytt, (mul(tap, conj(tap))))
Yff(br) == CDiv(Ytt(br), CMul(Tap(br), CConj(Tap(br))))
\* Yft = div(-Ys, conj(tap))
Yft_plus(br) == CDiv(Ys(br), CConj(Tap(br)))
Yft(br) == CDiv(CNeg(Ys(br)), CConj(Tap(br)))
\* Ytf = div(-Ys, tap)
Ytf(br) == CDiv(CNeg(Ys(br)), Tap(br))

RECURSIVE CSum(_)
CSum(seq) == IF seq = <<>> THEN CNum(0, 0) ELSE CAdd(Head(seq), CSum(Tail(seq)))

\* ff + ft + tf + tt: src = 0 and tgt = 1 for every branch
Ybranches(branches) ==
    [rc \in BusIdx \X BusIdx |->
        CSum([k \in 1..Len(branches) |->
            IF rc = <<0, 0>> THEN Yff(branches[k])
            ELSE IF rc = <<0, 1>> THEN Yft(branches[k])
            ELSE IF rc = <<1, 0>> THEN Ytf(branches[k])
            ELSE Ytt(branches[k])])]

\* what get_admittance_matrix returns; Ybr is Y before spdiag(Ysh) is added
AdmittanceValue(branches, g_shunt) ==
    LET Ybr == Ybranches(branches)
        Ysh == <<DivF(Num(g_shunt), Num(base_mva)), Num(0)>>
    IN  [op |-> "Y", out |-> "returned",
         Ybr |-> Ybr,
         Y |-> [rc \in BusIdx \X BusIdx |->
                  IF rc[1] = rc[2] THEN CAdd(Ysh, Ybr[rc]) ELSE Ybr[rc]],
         Ysrc |-> [k \in 1..Len(branches) |-> <<Yff(branches[k]), Yft(branches[k])>>],
         Ytgt |-> [k \in 1..Len(branches) |-> <<Ytf(branches[k]), Ytt(branches[k])>>]]

YCalls(c) ==
    \E n \in 1..MaxBranch : \E brs \in [1..n -> YBranches], g \in GShuntGrid :
        c = [op |-> "Y", branches |-> brs, g_shunt |-> g]

get_admittance_matrix ==
    /\ call.op = "Y"
    /\ result.op = "none"
    /\ result' = AdmittanceValue(call.branches, call.g_shunt)
    /\ UNCHANGED call
    /\ UNCHANGED <<omv, opfv, ipmv, pfv>>

(***************************************************************************)
(* pdipm, lines 281-309: the multipliers re-packaged into lmbda.  A        *)
(* vector is a sequence whose entry at Python index k is <<name, k>>, so   *)
(* that an entry tells which variable or row it belongs to.                *)
(***************************************************************************)
MaxDim == 2      \* largest nx, nA, neqnln, niqnln of a problem

\* seq[a:b] and seq[a:] of Python, for 0 <= a
PySlice(seq, a, b) == SubSeq(seq, a + 1, IF b < Len(seq) THEN b ELSE Len(seq))
PySliceFrom(seq, a) == SubSeq(seq, a + 1, Len(seq))

Vec(name, n) == [k \in 1..n |-> <<name, k - 1>>]

\* lmbda = {"eqnonlin": lam[1:neqnln], 'ineqnonlin': mu[1:niqnln],
\*     'mu_l': mu_l[nx + 1:], 'mu_u': mu_u[nx + 1:],
\*     'lower': mu_l[1:nx], 'upper': mu_u[1:nx]}
LmbdaValue(nx, nA, neqnln, niqnln, neq, niq) ==
    LET lam  == Vec("lam", neq)
        mu   == Vec("mu", niq)
        mu_l == Vec("mu_l", nx + nA)
        mu_u == Vec("mu_u", nx + nA)
    IN  [op |-> "lmbda",
         eqnonlin   |-> PySlice(lam, 1, neqnln),
         ineqnonlin |-> PySlice(mu, 1, niqnln),
         mu_l       |-> PySliceFrom(mu_l, nx + 1),
         mu_u       |-> PySliceFrom(mu_u, nx + 1),
         lower      |-> PySlice(mu_l, 1, nx),
         upper      |-> PySlice(mu_u, 1, nx)]

\* neq = neqnln + equality rows of [I; A], niq = niqnln + inequality rows
LmbdaCalls(c) ==
    \E nx \in 1..MaxDim, nA \in 0..MaxDim, ne \in 0..MaxDim, ni \in 0..MaxDim,
       le \in 0..1, li \in 0..1 :
        c = [op |-> "lmbda", nx |-> nx, nA |-> nA, neqnln |-> ne,
             niqnln |-> ni, neq |-> ne + le, niq |-> ni + li]

Repackage ==
    /\ call.op = "lmbda"
    /\ result.op = "none"
    /\ result' = LmbdaValue(call.nx, call.nA, call.neqnln, call.niqnln,
                            call.neq, call.niq)
    /\ UNCHANGED call
    /\ UNCHANGED <<omv, opfv, ipmv, pfv>>

(***************************************************************************)
(* pdipm, lines 228-236: the step lengths of the update and the new z and  *)
(* mu.  z, dz, mu and dmu are sequences of integers, the step lengths and  *)
(* the new vectors floating point values.                                  *)
(***************************************************************************)
xi_one == <<1, 1>>
xi == <<99995, 100000>>      \* xi = 0.99995

ZGridPos == 1..2             \* entries of z and mu, positive
DzGrid == {-3, 0, 1}         \* entries of dz
DmuGrid == {-3, 1}           \* entries of dmu

\* the smaller of two finite values
MinF(a, b) == IF a[1] * b[2] <= b[1] * a[2] THEN a ELSE b

RECURSIVE MinRatio(_, _, _)
\* min(div(z(k), -dz(k))) over k = nonzero(dz < 0), from entry p on; inf
\* when there is no such k
MinRatio(z, dz, p) ==
    IF p > Len(z) THEN <<1, 0>>
    ELSE LET rest == MinRatio(z, dz, p + 1)
         IN  IF dz[p] >= 0 THEN rest
             ELSE IF ~IsFinite(rest) THEN DivF(Num(z[p]), Num(-dz[p]))
             ELSE MinF(DivF(Num(z[p]), Num(-dz[p])), rest)

\* alphap = min( matrix([xi * min(div(z(k), -dz(k))), 1]) ), 1 when k is empty
StepLength(z, dz) ==
    LET m == MinRatio(z, dz, 1)
    IN  IF ~IsFinite(m) THEN Num(1) ELSE MinF(MulF(xi, m), Num(1))

\* z = z + alphap * dz
Stepped(z, alpha, dz) ==
    [k \in 1..Len(z) |-> AddF(Num(z[k]), MulF(alpha, Num(dz[k])))]

UpdateValue(z, dz, mu, dmu) ==
    [op |-> "update",
     alphap |-> StepLength(z, dz),
     alphad |-> StepLength(mu, dmu),
     z  |-> Stepped(z, StepLength(z, dz), dz),
     mu |-> Stepped(mu, StepLength(mu, dmu), dmu)]

UpdateCalls(c) ==
    \E n \in 1..MaxDim :
        \E z \in [1..n -> ZGridPos], dz \in [1..n -> DzGrid],
           mu \in [1..n -> ZGridPos], dmu \in [1..n -> DmuGrid] :
            c = [op |-> "update", z |-> z, dz |-> dz, mu |-> mu, dmu |-> dmu]

Update ==
    /\ call.op = "update"
    /\ result.op = "none"
    /\ result' = UpdateValue(call.z, call.dz, call.mu, call.dmu)
    /\ UNCHANGED call
    /\ UNCHANGED <<omv, opfv, ipmv, pfv>>

(***************************************************************************)
(* pdipm, lines 92-107: the variable bounds and the linear constraints     *)
(* folded into g and h.  A bound is an integer, Inf or -Inf; the rows of   *)
(* AA = [I; A] are named by their Python index.                            *)
(***************************************************************************)
Big == 1000      \* 1e10

\* <<lower, upper>> of a row: tight, bounded above, bounded below, boxed, free
RowBounds == {<<0, 0>>, <<-Inf, 2>>, <<0, Inf>>, <<0, 2>>, <<-Inf, Inf>>}

IsInf(a) == a = Inf \/ a = -Inf

\* abs(a - b) < EPS and abs(a - b) > EPS; inf - inf is nan and compares False
AbsDiffBelowEPS(a, b) ==
    IF IsInf(a) \/ IsInf(b) THEN FALSE
    ELSE (IF a >= b THEN a - b ELSE b - a) < EPS
AbsDiffAboveEPS(a, b) ==
    IF IsInf(a) /\ a = b THEN FALSE
    ELSE IF IsInf(a) \/ IsInf(b) THEN TRUE
    ELSE (IF a >= b THEN a - b ELSE b - a) > EPS

RECURSIVE Asc(_)
\* the list comprehension over a range: the selected indices in order
Asc(S) ==
    IF S = {} THEN <<>>
    ELSE LET m == CHOOSE a \in S : \A b \in S : a <= b
         IN  <<m>> \o Asc(S \ {m})

\* what lines 92-107 compute from xmin, xmax (length nx) and l, u (length nA)
SplitValue(xmin, xmax, l, u) ==
    LET ll  == xmin \o l
        uu  == xmax \o u
        \* Python index k of a vector v
        at(v, k) == v[k + 1]
        ieq == Asc({k \in 0..(Len(uu) - 1) : AbsDiffBelowEPS(at(uu, k), at(ll, k))})
        igt == Asc({k \in 0..(Len(l) - 1) : at(uu, k) > Big /\ at(ll, k) > -Big})
        ilt == Asc({k \in 0..(Len(l) - 1) : at(uu, k) < -Big /\ at(ll, k) < Big})
        ibx == Asc({k \in 0..(Len(l) - 1) :
                      /\ AbsDiffAboveEPS(at(u, k), at(l, k))
                      /\ at(uu, k) < Big /\ at(ll, k) > -Big})
    IN  [op |-> "split", ieq |-> ieq, igt |-> igt, ilt |-> ilt, ibx |-> ibx,
         \* Ae * x - be, Ae = AA[ieq, :], be = uu[ieq, :]
         h |-> [k \in 1..Len(ieq) |->
                  [sign |-> 1, row |-> ieq[k], b |-> at(uu, ieq[k])]],
         \* Ai * x - bi, Ai = [AA[ilt]; -AA[igt]; AA[ibx]; -AA[ibx]],
         \* bi = [uu[ilt]; -ll[igt]; uu[ibx]; -ll[ibx]]
         g |-> [k \in 1..Len(ilt) |->
                  [sign |-> 1, row |-> ilt[k], b |-> at(uu, ilt[k])]]
               \o [k \in 1..Len(igt) |->
                  [sign |-> -1, row |-> igt[k], b |-> -at(ll, igt[k])]]
               \o [k \in 1..Len(ibx) |->
                  [sign |-> 1, row |-> ibx[k], b |-> at(uu, ibx[k])]]
               \o [k \in 1..Len(ibx) |->
                  [sign |-> -1, row |-> ibx[k], b |-> -at(ll, ibx[k])]]]

SplitCalls(c) ==
    \E nx \in 1..MaxDim, nA \in 0..(MaxDim - 1) :
        \E xb \in [1..nx -> RowBounds], ab \in [1..nA -> RowBounds] :
            c = [op |-> "split",
                 xmin |-> [k \in 1..nx |-> xb[k][1]],
                 xmax |-> [k \in 1..nx |-> xb[k][2]],
                 l |-> [k \in 1..nA |-> ab[k][1]],
                 u |-> [k \in 1..nA |-> ab[k][2]]]

Split ==
    /\ call.op = "split"
    /\ result.op = "none"
    /\ result' = SplitValue(call.xmin, call.xmax, call.l, call.u)
    /\ UNCHANGED call
    /\ UNCHANGED <<omv, opfv, ipmv, pfv>>


(***************************************************************************)
(* NewtonPFRoutine.iterate (newton_pf.py): one Newton update of the bus    *)
(* voltages.  A call gives the mode, angle and magnitude of each bus.      *)
(***************************************************************************)
\* v.mode is "PV", "PQ" or "Slack", as _index_buses reads it
IterateCalls(c) ==
    \E n \in BusNo : \E mode \in [1..n -> {"PV", "PQ", "Slack"}],
                        Va \in [1..n -> 0..1], Vm \in [1..n -> 1..2] :
        c = [op |-> "iterate", mode |-> mode, Va |-> Va, Vm |-> Vm]

\* Va = angle(self.v) is reached before any voltage is written.  angle, in
\* this module, evaluates math.arctan2 for every entry of z and then calls
\* atan2, which reads the names nrows and ncols that nothing binds: the
\* first is an AttributeError (math has atan2, not arctan2), the second a
\* NameError when z is empty.  self.v stays as it was.
NewtonIterate ==
    /\ call.op = "iterate"
    /\ result.op = "none"
    /\ result' = [op |-> "iterate", out |-> "AttributeError",
                  Va |-> call.Va, Vm |-> call.Vm]
    /\ UNCHANGED call
    /\ UNCHANGED <<omv, opfv, ipmv, pfv>>


(***************************************************************************)
(* OPF._pwl_gen_costs (opf.py) for a DC model.  A generator is             *)
(* [pcost_model, qcost_model, p_cost], p_cost a sequence of points <<x, c>>.*)
(***************************************************************************)
PwlCalls(c) ==
    \E n \in 0..2 :
        \E gs \in [1..n ->
                    [pcost_model : {"poly", "pwl"}, qcost_model : {"None", "pwl"},
                     p_cost : {<<<<0, 0>>, <<1, 2>>>>,
                               <<<<0, 0>>, <<1, 2>>, <<2, 6>>>>}]] :
            c = [op |-> "pwl", generators |-> gs]

\* ng, gpwl, nq, ybas, ny, nc and the shape Ay is created with; with a
\* piecewise-linear generator the first pass of the loop stops at
\* by = r_[by, b], which joins the 0 x 1 array by to the 1-d array b
\* (ValueError), before any entry of Ay is written
PwlGenCostsValue(generators) ==
    LET ng   == Len(generators)
        gpwl == SelectSeq(generators, LAMBDA g : g.pcost_model = "pwl")
        nq   == Len(SelectSeq(gpwl, LAMBDA g : g.qcost_model # "None"))
        ybas == ng
        ny   == Len(gpwl) + nq
        nc   == SumN([k \in 1..Len(gpwl) |-> [N |-> Len(gpwl[k].p_cost)]])
    IN  IF ny > 0
        THEN [op |-> "pwl", out |-> "ValueError", ny |-> ny,
              Ay_shape |-> <<nc - ny, ybas + ny - 1>>]
        ELSE [op |-> "pwl", out |-> "returned", y |-> "None", ycon |-> "None"]

pwl_gen_costs ==
    /\ call.op = "pwl"
    /\ result.op = "none"
    /\ result' = PwlGenCostsValue(call.generators)
    /\ UNCHANGED call
    /\ UNCHANGED <<omv, opfv, ipmv, pfv>>


(***************************************************************************)
(* Generator.offers_to_pwl and Generator._offbids_to_points (case.py).     *)
(* An offer is [generator, quantity, price, withheld]; a quantity is a     *)
(* whole number of 0.00001 MW, so that 4 rounds to 0.0 and 6 to 0.0001 at  *)
(* four decimals; a point is <<x, y>>.                                     *)
(***************************************************************************)
MaxOffers == 2

\* round(quantity, 4), in units of 0.0001; no quantity of a call is a tie
Round4_up(q) == (q + 9) \div 10
Round4(q) == (q + 5) \div 10

\* key=lambda x: x.price
SortKey_quantity(x) == x.quantity
SortKey(x) == x.price

\* offbids.sort(key=lambda x: x.price), a stable sort, then the points
\* (x2, m * (x2 - x1) + y1) from (0.0, 0.0)
offbids_to_points(offbids) ==
    LET RECURSIVE Insert(_, _)
        Insert(o, sorted) ==
            IF sorted = <<>> THEN <<o>>
            ELSE IF SortKey(Head(sorted)) <= SortKey(o)
                 THEN <<Head(sorted)>> \o Insert(o, Tail(sorted))
                 ELSE <<o>> \o sorted
        RECURSIVE Sort(_)
        Sort(seq) ==
            IF seq = <<>> THEN <<>>
            ELSE Insert(seq[Len(seq)], Sort(SubSeq(seq, 1, Len(seq) - 1)))
        RECURSIVE Points(_, _)
        Points(sorted, points) ==
            IF sorted = <<>> THEN points
            ELSE LET p1 == points[Len(points)]
                     x2 == p1[1] + Head(sorted).quantity
                     y2 == Head(sorted).price * (x2 - p1[1]) + p1[2]
                 IN  Points(Tail(sorted), Append(points, <<x2, y2>>))
    IN  Points(Sort(offbids), <<<<0, 0>>>>)

\* the generator after offers_to_pwl(offers)
OffersToPwlValue(g, offers) ==
    LET g_offers == SelectSeq(offers, LAMBDA o : o.generator = "self")
        nonzero  == SelectSeq(g_offers, LAMBDA o : Round4(o.quantity) > 0)
        valid    == SelectSeq(nonzero, LAMBDA o : ~o.withheld)
    IN  IF valid # <<>>
        THEN [g EXCEPT !.p_cost = offbids_to_points(valid),
                       !.cost_model = "pwl", !.online = TRUE]
        ELSE IF ~g.is_load THEN [g EXCEPT !.online = FALSE]
        ELSE g

MarketCalls(c) ==
    \/ \E n \in 0..MaxOffers :
         \E offers \in [1..n -> [generator : {"self", "other"},
                                 quantity : {0, 4, 6}, price : {3},
                                 withheld : BOOLEAN]],
            online \in BOOLEAN, is_load \in BOOLEAN :
            c = [op |-> "offers_to_pwl", offers |-> offers,
                 g |-> [online |-> online, is_load |-> is_load,
                        cost_model |-> "poly", p_cost |-> <<>>]]
    \/ \E n \in 1..(MaxOffers + 1) :
         \E offbids \in [1..n -> [quantity : {1, 6}, price : {-1, 2, 3}]] :
            c = [op |-> "offbids_to_points", offbids |-> offbids]

offers_to_pwl ==
    /\ call.op = "offers_to_pwl"
    /\ result.op = "none"
    /\ result' = [op |-> "offers_to_pwl", g |-> OffersToPwlValue(call.g, call.offers)]
    /\ UNCHANGED call
    /\ UNCHANGED <<omv, opfv, ipmv, pfv>>

OffbidsToPoints ==
    /\ call.op = "offbids_to_points"
    /\ result.op = "none"
    /\ result' = [op |-> "offbids_to_points",
                  points |-> offbids_to_points(call.offbids)]
    /\ UNCHANGED call
    /\ UNCHANGED <<omv, opfv, ipmv, pfv>>


(***************************************************************************)
(* Generator.poly_to_pwl and Generator.total_cost (case.py).  p_cost of a  *)
(* polynomial cost is the sequence of coefficients, highest power first.   *)
(***************************************************************************)
RECURSIVE Horner(_, _)
\* c[-1] + c[-2] * p + c[-3] * p**2 + ...
Horner(c, p) ==
    IF Len(c) = 1 THEN c[1]
    ELSE c[Len(c)] + p * Horner(SubSeq(c, 1, Len(c) - 1), p)

\* total_cost(p) with a polynomial cost model: result = self.p_cost[-1]
\* is an IndexError on an empty list
total_cost(g, p) ==
    IF g.p_cost = <<>> THEN "IndexError" ELSE Horner(g.p_cost, p)

PolyCalls(c) ==
    \E p_min \in {-1, 0, 1}, p_max \in {2, 3}, n_points \in 3..4,
       p_cost \in {<<2, 1>>, <<1, 0, 2>>} :
        c = [op |-> "poly_to_pwl", n_points |-> n_points,
             g |-> [p_min |-> p_min, p_max |-> p_max, p_cost |-> p_cost,
                    cost_model |-> "poly"]]

\* self.p_cost = [] comes before the first total_cost, which then reads
\* self.p_cost[-1]: with p_min > 0 at y0 = self.total_cost(0.0), otherwise
\* in the first pass of the loop.  The generator is left with no cost
\* points and its polynomial cost model.
poly_to_pwl ==
    /\ call.op = "poly_to_pwl"
    /\ result.op = "none"
    /\ LET g1 == [call.g EXCEPT !.p_cost = <<>>, !.cost_model = "poly"]
       \* the first evaluation is at 0.0 on either path
       IN  /\ total_cost(g1, 0) = "IndexError"
           /\ result' = [op |-> "poly_to_pwl", out |-> "IndexError", g |-> g1]
    /\ UNCHANGED call
    /\ UNCHANGED <<omv, opfv, ipmv, pfv>>


(***************************************************************************)
(* pdipm_qp (pdipm.py): the objective callback handed to pdipm, for one    *)
(* variable.  H, c and x are numbers, H even so that 0.5 * H is whole.     *)
(***************************************************************************)
\* def qp_f(x, H=None, c=None): the parameters H and c hide the H and c of
\* pdipm_qp; 0.5 * x.T * H * x with H = None is a TypeError; with both
\* given the function returns df, H
qp_f(x, H, c) ==
    IF H = "None" \/ c = "None" THEN [out |-> "TypeError"]
    ELSE [out |-> "returned", first |-> H * x + c, second |-> H]

QpCalls(c) ==
    \E H \in {0, 2, 4}, cc \in -1..1, x \in -2..2 :
        c = [op |-> "ipm_f", H |-> H, c |-> cc, x |-> x]

\* f, df = ipm_f(x) in pdipm, ipm_f being the qp_f of pdipm_qp(H, c, ...)
CallObjective ==
    /\ call.op = "ipm_f"
    /\ result.op = "none"
    /\ result' = [op |-> "ipm_f", ret |-> qp_f(call.x, "None", "None")]
    /\ UNCHANGED call
    /\ UNCHANGED <<omv, opfv, ipmv, pfv>>


(***************************************************************************)
(* pdipm, lines 129-138: z and mu initialised from g.  mu = z binds the    *)
(* name mu to the matrix z is bound to, so an assignment to an entry of    *)
(* either is an assignment to the one matrix both name.  Entries are       *)
(* <<n, d>> pairs; gamma is 1 here.                                        *)
(***************************************************************************)
z0 == 1

InitSlackCalls(c) ==
    \E n \in 1..MaxDim : \E g \in [1..n -> {-3, -1, 0, 2}] :
        c = [op |-> "init_z", g |-> g]

InitSlack ==
    /\ call.op = "init_z"
    /\ result.op = "none"
    /\ LET g == call.g
           \* z = z0 * matrix(1.0, (niq, 1)); mu = z
           m0 == [k \in DOMAIN g |-> Num(z0)]
           \* k = nonzero(g < -z0); z[k] = -g[k]
           m1 == [k \in DOMAIN g |-> IF g[k] < -z0 THEN Num(-g[k]) ELSE m0[k]]
           \* k = nonzero(div(gamma, z) > z0); mu[k] = div(gamma, z[k])
           m2 == [k \in DOMAIN g |->
                    LET q == DivF(Num(1), m1[k])
                    IN  IF q[1] > z0 * q[2] THEN q ELSE m1[k]]
       IN  result' = [op |-> "init_z", z |-> m2, mu |-> m2]
    /\ UNCHANGED call
    /\ UNCHANGED <<omv, opfv, ipmv, pfv>>


(***************************************************************************)
(* Branch.__init__ (case.py): the attributes the constructor sets.  An     *)
(* object is the function from the names of its attributes to their        *)
(* values; an angle limit is <<>> for None or <<degrees>>.                 *)
(***************************************************************************)
BranchCalls(c) ==
    \E a \in {<<>>, <<-10>>, <<-360>>}, b \in {<<>>, <<10>>, <<360>>} :
        c = [op |-> "Branch", ang_min |-> a, ang_max |-> b]

\* self.ang_min = ang_min is written twice, under the comments for the
\* minimum and for the maximum; no statement assigns self.ang_max
BranchInit ==
    /\ call.op = "Branch"
    /\ result.op = "none"
    /\ result' = [op |-> "Branch", branch |-> [ang_min |-> call.ang_min]]
    /\ UNCHANGED call
    /\ UNCHANGED <<omv, opfv, ipmv, pfv>>


(***************************************************************************)
(* Case.get_admittance_matrix(phase_shift=False) (case.py).                *)
(***************************************************************************)
NoShiftCalls(c) ==
    \E brs \in [1..1 -> YBranches], g \in GShuntGrid :
        c = [op |-> "Y_noshift", branches |-> brs, g_shunt |-> g]

\* with phase_shift false the else branch binds the name phase_shift, not
\* shift, to the zero vector; tap = mul(tap, exp(j * shift)) then reads the
\* local name shift, which no statement has bound: UnboundLocalError
get_admittance_matrix_noshift ==
    /\ call.op = "Y_noshift"
    /\ result.op = "none"
    /\ result' = [op |-> "Y_noshift", out |-> "UnboundLocalError"]
    /\ UNCHANGED call
    /\ UNCHANGED <<omv, opfv, ipmv, pfv>>

(***************************************************************************)
(* One call of a function of its arguments.                                *)
(***************************************************************************)
FnCalls(c) ==
    \/ BCalls(c) \/ DSCalls(c) \/ YCalls(c)
    \/ LmbdaCalls(c) \/ UpdateCalls(c) \/ SplitCalls(c)
    \/ IterateCalls(c)
    \/ PwlCalls(c)
    \/ MarketCalls(c)
    \/ PolyCalls(c)
    \/ QpCalls(c)
    \/ InitSlackCalls(c)
    \/ BranchCalls(c)
    \/ NoShiftCalls(c)

InitFn ==
    /\ FnCalls(call)
    /\ result = [op |-> "none"]
    \* the other components stay as constructed
    /\ vars = <<>>
    /\ lin_constraints = <<>>
    /\ nln_constraints = <<>>
    /\ ret = [op |-> "init", name |-> "", out |-> "None"]
    /\ lc = NoValue
    /\ case = [buses |-> <<>>, branches |-> <<>>, generators |-> <<>>]
    /\ case0 = [buses |-> <<>>, branches |-> <<>>, generators |-> <<>>]
    /\ dc = TRUE
    /\ solver_klass = FALSE
    /\ opc = "idle"
    /\ om = "none"
    /\ logged = FALSE
    /\ solver = "none"
    /\ solver_run = FALSE
    /\ outcome = "none"
    /\ ipc = "idle"
    /\ max_it = 0
    /\ i = 0
    /\ converged = FALSE
    /\ feascond = 0 /\ gradcond = 0 /\ compcond = 0 /\ costcond = 0
    /\ xnan = FALSE
    /\ alphap = 1 /\ alphad = 1
    /\ gamma = 1
    /\ info = FALSE
    /\ output = NoOutput
    /\ npc = "idle"
    /\ iter = 0
    /\ iter_max = 0
    /\ pf_converged = FALSE
    /\ f = <<>>
    /\ iterated = 0

NextFn ==
    \/ CaseB
    \/ dSbus_dV
    \/ get_admittance_matrix
    \/ Repackage
    \/ Update
    \/ Split
    \/ NewtonIterate
    \/ pwl_gen_costs
    \/ offers_to_pwl
    \/ OffbidsToPoints
    \/ poly_to_pwl
    \/ CallObjective
    \/ InitSlack
    \/ BranchInit
    \/ get_admittance_matrix_noshift

(***************************************************************************)
(* The specifications.  Each runs one component and leaves the variables   *)
(* of the others as they are initially.                                    *)
(***************************************************************************)
SpecOM == InitOM /\ [][NextOM]_allv

SpecOPF == InitOPF /\ [][NextOPF]_allv

SpecIPM == InitIPM /\ [][NextIPM]_allv

SpecPF == InitPF /\ [][NextPF]_allv

SpecFn == InitFn /\ [][NextFn]_allv

(***************************************************************************)
(* Claims about OPF.solve, checked under SpecOPF.                          *)
(***************************************************************************)
\* C5: when the case does not have exactly one reference bus, OPF.solve
\* reports the error and ends without constructing or running any solver and
\* without raising.
C5_NoSolverWithoutOneRef ==
    (opc \notin {"idle", "solve", "reset"} /\ ~OneRef(case0)) =>
        /\ logged
        /\ solver = "none"
        /\ ~solver_run
        /\ outcome # "raised"

\* C6: when the reference bus check fails no field of the Case has been
\* changed at the point the error is reported.
C6_CaseUntouchedOnRefError ==
    opc = "ref_error" => case = case0

(***************************************************************************)
(* Claims about pdipm, checked under SpecIPM.                              *)
(***************************************************************************)
AllBelowTolerance ==
    /\ feascond < feastol
    /\ gradcond < gradtol
    /\ compcond < comptol
    /\ costcond < costtol

IterationEnds == i' = i + 1 /\ ipc' # "raised"

LeftByBreak ==
    i >= 1 /\ ~converged /\ NumericallyFailed(xnan, alphap, alphad, gamma)

\* C11: when pdipm stops because of numerical divergence the result tells so:
\* it carries a reason code, or at least its iteration count is short of
\* max_it exactly when the loop was left by the divergence test, so that a
\* caller tells Diverged from Exhausted by the result alone.
C11_DivergedToldFromExhausted ==
    (ipc = "returned" /\ ~info) =>
        \/ "reason" \in DOMAIN output
        \/ (LeftByBreak <=> output.iterations < max_it)

\* C12: a failing linear solve inside an iteration becomes a divergence
\* outcome: pdipm returns converged = false and raises nothing.
C12_LinsolveFailureReturned ==
    ipc # "raised"

(***************************************************************************)
(* Claims about NewtonPFRoutine.solve, checked under SpecPF.               *)
(***************************************************************************)
\* C13: when the initial mismatch fails the convergence test and iter_max is
\* greater than zero, solve performs at least one Newton iteration, and it
\* iterates until the test passes or the count reaches iter_max.
C13_IteratesUntilConvergedOrMax ==
    npc = "done" =>
        /\ (~check_convergence(f) /\ iter_max > 0) => iterated >= 1
        /\ pf_converged \/ iter = iter_max

(***************************************************************************)
(* Claims about functions of their arguments, checked under SpecFn.        *)
(***************************************************************************)
AllFiniteB(v) ==
    /\ \A rc \in DOMAIN v.B : IsFinite(v.B[rc])
    /\ \A k \in DOMAIN v.Bsrc : IsFinite(v.Bsrc[k][1]) /\ IsFinite(v.Bsrc[k][2])
    /\ \A k \in DOMAIN v.p_srcinj : IsFinite(v.p_srcinj[k])
    /\ \A r \in DOMAIN v.p_businj : IsFinite(v.p_businj[r])

\* C14: Case.B on a case with an in-service branch of reactance 0 does not
\* divide by zero: it returns, and every entry it returns is finite.
C14_ZeroReactanceFinite ==
    result.op = "B" => (result.out = "returned" /\ AllFiniteB(result))

HasZeroVoltage(v) == \E k \in 1..Len(v) : AbsV(v[k]) = 0

NoNaNdS(v) ==
    /\ \A rk \in DOMAIN v.dS_dVm : ~CHasNaN(v.dS_dVm[rk])
    /\ \A rk \in DOMAIN v.dS_dVa : ~CHasNaN(v.dS_dVa[rk])

\* C15: dSbus_dV on a voltage vector with a zero-magnitude entry signals a
\* numeric-domain error; it does not return matrices that contain NaN.
C15_ZeroVoltageSignalled ==
    (result.op = "dSbus_dV" /\ HasZeroVoltage(call.v)) =>
        result.out # "returned"

CIsZero(a) == a[1][1] = 0 /\ a[1][2] # 0 /\ a[2][1] = 0 /\ a[2][2] # 0

RowSumsZero(M) ==
    \A r \in BusIdx : CIsZero(CAdd(M[<<r, 0>>], M[<<r, 1>>]))

Symmetric(branches) ==
    \A k \in 1..Len(branches) : branches[k].tap = <<1, 0>>

\* C16 as stated: when every branch has ratio = 1 and phase_shift = 0, for
\* any r, x, line charging b and online flag, every row of the admittance
\* matrix before the bus shunts are added sums to zero.
C16_RowSumsZeroAnyCharging ==
    (result.op = "Y" /\ Symmetric(call.branches)) => RowSumsZero(result.Ybr)

\* C16: when every branch has ratio = 1, phase_shift = 0, no line charging
\* (b = 0) and a series impedance r + jx other than zero, every row of the
\* admittance matrix before the bus shunts are added sums to zero.
C16_RowSumsZero ==
    (/\ result.op = "Y"
     /\ Symmetric(call.branches)
     /\ \A k \in 1..Len(call.branches) :
           call.branches[k].b = 0 /\ call.branches[k].z # <<0, 0>>)
    => RowSumsZero(result.Ybr)

C16_Witness ==
    /\ result.op = "Y"
    /\ Len(call.branches) = 2
    /\ \A k \in 1..2 :
          /\ call.branches[k].tap = <<1, 0>>
          /\ call.branches[k].b = 0
          /\ call.branches[k].online
    /\ call.branches[1].z = <<0, 1>>
    /\ call.branches[2].z = <<1, 2>>
    /\ call.g_shunt = 1
    /\ RowSumsZero(result.Ybr)
    /\ ~RowSumsZero(result.Y)

(***************************************************************************)
(* Case.reset inside OPF.solve, checked under SpecOPF.                     *)
(***************************************************************************)
ResultsZero(c) ==
    /\ \A k \in DOMAIN c.buses :
          /\ c.buses[k].v_magnitude = 0 /\ c.buses[k].v_angle = 0
          /\ c.buses[k].p_lambda = 0 /\ c.buses[k].q_lambda = 0
          /\ c.buses[k].mu_vmin = 0 /\ c.buses[k].mu_vmax = 0
    /\ \A k \in DOMAIN c.branches :
          /\ c.branches[k].p_from = 0 /\ c.branches[k].p_to = 0
          /\ c.branches[k].q_from = 0 /\ c.branches[k].q_to = 0
          /\ c.branches[k].mu_s_from = 0 /\ c.branches[k].mu_s_to = 0
    /\ \A k \in DOMAIN c.generators :
          c.generators[k].mu_pmin = 0 /\ c.generators[k].mu_pmax = 0

InputsKept(c, c0) ==
    /\ DOMAIN c.buses = DOMAIN c0.buses
    /\ DOMAIN c.branches = DOMAIN c0.branches
    /\ DOMAIN c.generators = DOMAIN c0.generators
    /\ \A k \in DOMAIN c.buses :
          /\ c.buses[k].type = c0.buses[k].type
          /\ c.buses[k].v_magnitude_guess = c0.buses[k].v_magnitude_guess
          /\ c.buses[k].p_demand = c0.buses[k].p_demand
    /\ \A k \in DOMAIN c.branches :
          /\ c.branches[k].from_bus = c0.branches[k].from_bus
          /\ c.branches[k].to_bus = c0.branches[k].to_bus
          /\ c.branches[k].online = c0.branches[k].online
          /\ c.branches[k].r = c0.branches[k].r
          /\ c.branches[k].x = c0.branches[k].x
    /\ \A k \in DOMAIN c.generators :
          /\ c.generators[k].bus = c0.generators[k].bus
          /\ c.generators[k].online = c0.generators[k].online
          /\ c.generators[k].p_max = c0.generators[k].p_max
          /\ c.generators[k].p = c0.generators[k].p
          /\ c.generators[k].q = c0.generators[k].q

\* C17: OPF.solve starts by calling Case.reset: when the reset has run every
\* result field of every bus, branch and generator is zero, and every input
\* field (type, demand, guess, impedance, limit, online flag, generator p
\* and q) has the value it had when solve was called; the result fields
\* stay zero while the model is constructed.
C17_SolveStartsFromZeroedResults ==
    /\ [][opc = "solve" => (opc' = "reset" /\ ResultsZero(case')
                                          /\ InputsKept(case', case))]_opfv
    /\ [](opc \in {"reset", "ref_ok", "ref_error", "isolated_removed",
                   "model_built"} => ResultsZero(case))
    /\ [](opc = "reset" => InputsKept(case, case0))

C17_Witness ==
    /\ opc = "reset"
    /\ \E k \in DOMAIN case0.buses : case0.buses[k].v_angle # 0
    /\ \E k \in DOMAIN case0.generators :
          /\ case0.generators[k].mu_pmax # 0
          /\ case.generators[k].p = 2
          /\ ~case.generators[k].online
    /\ \E k \in DOMAIN case0.branches : case0.branches[k].q_to # 0

(***************************************************************************)
(* Claims about the parts of pdipm that are functions of their arguments,  *)
(* checked under SpecFn.                                                   *)
(***************************************************************************)
\* the n entries of the vector name from Python index first on
Part(v, name, first, n) ==
    /\ Len(v) = n
    /\ \A k \in 1..Len(v) : v[k] = <<name, first + k - 1>>

\* C18: the multiplier record pdipm returns partitions the duals: lower and
\* upper have nx entries, mu_l and mu_u have nA entries, eqnonlin has neqnln
\* and ineqnonlin niqnln entries, entry i belonging to variable or row i.
C18_MultipliersPartitioned ==
    result.op = "lmbda" =>
        /\ Part(result.lower, "mu_l", 0, call.nx)
        /\ Part(result.upper, "mu_u", 0, call.nx)
        /\ Part(result.mu_l, "mu_l", call.nx, call.nA)
        /\ Part(result.mu_u, "mu_u", call.nx, call.nA)
        /\ Part(result.eqnonlin, "lam", 0, call.neqnln)
        /\ Part(result.ineqnonlin, "mu", 0, call.niqnln)

PositiveF(a) == a[1] > 0 /\ a[2] > 0
\* a <= 1
AtMostOne(a) == a[1] <= a[2]

RowsFor(rows, sign, idx, b) ==
    {k \in 1..Len(rows) :
        rows[k].sign = sign /\ rows[k].row = idx /\ rows[k].b = b}

\* C20: no finite bound is lost when [I; A] with (ll, uu) is folded: a tight
\* row is one row of h; a row bounded above only is one row AA_i*x - uu_i
\* of g; a row bounded below only is one row ll_i - AA_i*x of g; a row with
\* two distinct finite bounds is both rows of g; for the variable-bound rows
\* and the linear-constraint rows alike.
C20_NoBoundLost ==
    result.op = "split" =>
        LET ll == call.xmin \o call.l
            uu == call.xmax \o call.u
        IN  \A k \in 1..Len(ll) :
              LET upper == Cardinality(RowsFor(result.g, 1, k - 1, uu[k]))
                  lower == Cardinality(RowsFor(result.g, -1, k - 1, -ll[k]))
                  tight == Cardinality(RowsFor(result.h, 1, k - 1, uu[k]))
              IN  /\ (ll[k] = uu[k]) => tight = 1
                  /\ (ll[k] = -Inf /\ uu[k] # Inf) => upper = 1
                  /\ (ll[k] # -Inf /\ uu[k] = Inf) => lower = 1
                  /\ (ll[k] # -Inf /\ uu[k] # Inf /\ ll[k] # uu[k]) =>
                        (upper = 1 /\ lower = 1)

(***************************************************************************)
(* NewtonPFRoutine.iterate, checked under SpecFn.                          *)
(***************************************************************************)
\* pv_idxs, pq_idxs of _index_buses, as positions 1..n in order
IdxOf(mode, m) == {k \in DOMAIN mode : mode[k] = m}
\* how many entries of S are below k
RankIn(S, k) == Cardinality({q \in S : q < k})

\* C21: one iteration returns, having added entry p of dx to the angle of
\* the p-th PV bus, entry len(pv) + p to the angle of the p-th PQ bus and
\* entry len(pv) + len(pq) + p to the magnitude of the p-th PQ bus, and
\* leaves the slack bus and the magnitudes of the PV buses as they were.
\* Entry p of dx is taken as p, so that every entry is non-zero.
C21_OnlyPVPQUpdated ==
    result.op = "iterate" =>
        LET pv == IdxOf(call.mode, "PV")
            pq == IdxOf(call.mode, "PQ")
            npv == Cardinality(pv)
            npq == Cardinality(pq)
        IN  /\ result.out = "returned"
            /\ \A k \in DOMAIN call.mode :
                  /\ k \in pv =>
                        /\ result.Va[k] = call.Va[k] + RankIn(pv, k) + 1
                        /\ result.Vm[k] = call.Vm[k]
                  /\ k \in pq =>
                        /\ result.Va[k] = call.Va[k] + npv + RankIn(pq, k) + 1
                        /\ result.Vm[k] = call.Vm[k] + npv + npq + RankIn(pq, k) + 1
                  /\ call.mode[k] = "Slack" =>
                        /\ result.Va[k] = call.Va[k]
                        /\ result.Vm[k] = call.Vm[k]

(***************************************************************************)
(* OPF._pwl_gen_costs, checked under SpecFn.                               *)
(***************************************************************************)
\* C22: with at least one piecewise-linear generator among ng generators,
\* _pwl_gen_costs returns y with as many unknowns as there are
\* piecewise-linear generators and ycon with one row per cost segment and
\* ng + ny columns, the row of a segment holding its slope in the
\* generator's Pg column and -1 in the generator's y column.
C22_OneRowPerSegment ==
    LET gens == call.generators
        pwl  == {k \in DOMAIN gens : gens[k].pcost_model = "pwl"}
    IN  (result.op = "pwl" /\ pwl # {}) =>
            /\ result.out = "returned"
            /\ result.y.N = Cardinality(pwl)
            /\ Len(result.ycon.A) =
                  SumN([k \in DOMAIN gens |->
                          [N |-> IF k \in pwl THEN Len(gens[k].p_cost) - 1
                                 ELSE 0]])
            /\ \A r \in DOMAIN result.ycon.A :
                  Len(result.ycon.A[r]) = Len(gens) + Cardinality(pwl)

(***************************************************************************)
(* OPF._remove_isolated inside OPF.solve, checked under SpecOPF.           *)
(***************************************************************************)
\* the lists _remove_isolated returns for the case c, given the case b it
\* was called on
RemovedConsistent(c, b) ==
    /\ \A k \in connected_buses(c) : c.buses[k].type # ISOLATED
    /\ \A k \in online_branches(c) :
          /\ c.branches[k].online
          /\ c.branches[k].from_bus \in connected_buses(c)
          /\ c.branches[k].to_bus \in connected_buses(c)
    /\ \A k \in online_generators(c) :
          /\ c.generators[k].online
          /\ c.generators[k].bus \in connected_buses(c)
    /\ \A k \in DOMAIN b.branches :
          (/\ b.buses[b.branches[k].from_bus].type # ISOLATED
           /\ b.buses[b.branches[k].to_bus].type # ISOLATED)
          => c.branches[k].online = b.branches[k].online
    /\ \A k \in DOMAIN b.generators :
          b.buses[b.generators[k].bus].type # ISOLATED
          => c.generators[k].online = b.generators[k].online

C24_OnlineIffValidOffer ==
    (result.op = "offers_to_pwl" /\ ~call.g.is_load) =>
        (result.g.online <=>
            \E k \in DOMAIN call.offers :
                /\ call.offers[k].generator = "self"
                /\ ~call.offers[k].withheld
                /\ call.offers[k].quantity >= 5)

C24_Witness ==
    /\ result.op = "offers_to_pwl"
    /\ ~call.g.is_load /\ call.g.online
    /\ Len(call.offers) = 2
    /\ call.offers[1] = [generator |-> "other", quantity |-> 6, price |-> 3,
                         withheld |-> FALSE]
    /\ call.offers[2] = [generator |-> "self", quantity |-> 4, price |-> 3,
                         withheld |-> FALSE]
    /\ ~result.g.online

\* C25: for a non-empty list of blocks with positive quantities, in any
\* order, _offbids_to_points returns one more point than blocks, starting
\* at (0, 0), with strictly increasing x, segment slopes that are the block
\* prices in non-decreasing order, and a final x that is the sum of the
\* quantities.
C25_PointsConvex ==
    result.op = "offbids_to_points" =>
        LET pts == result.points
            n   == Len(call.offbids)
            \* slope of segment k, exact: dy = price * dx
            IsSlope(k, m) == pts[k + 1][2] - pts[k][2] = m * (pts[k + 1][1] - pts[k][1])
        IN  /\ Len(pts) = n + 1
            /\ pts[1] = <<0, 0>>
            /\ \A k \in 1..n : pts[k][1] < pts[k + 1][1]
            /\ \E perm \in [1..n -> 1..n] :
                  /\ \A a, b \in 1..n : a # b => perm[a] # perm[b]
                  /\ \A k \in 1..n : IsSlope(k, call.offbids[perm[k]].price)
                  /\ \A k \in 1..(n - 1) :
                        call.offbids[perm[k]].price <= call.offbids[perm[k + 1]].price
            /\ pts[n + 1][1] = SumN([k \in 1..n |-> [N |-> call.offbids[k].quantity]])

C25_Witness ==
    /\ result.op = "offbids_to_points"
    /\ call.offbids = <<[quantity |-> 6, price |-> 3], [quantity |-> 1, price |-> -1],
                        [quantity |-> 1, price |-> 2]>>
    /\ result.points = <<<<0, 0>>, <<1, -1>>, <<2, 1>>, <<8, 19>>>>

(***************************************************************************)
(* Generator.poly_to_pwl, checked under SpecFn.                            *)
(***************************************************************************)
\* C26: for a generator with polynomial cost, p_min < p_max and
\* n_points >= 3, poly_to_pwl(n_points) leaves cost_model piecewise-linear
\* and p_cost with exactly n_points breakpoints of strictly increasing x,
\* each y the polynomial cost at its x, the last x being p_max.
C26_PolyToPwlBreakpoints ==
    result.op = "poly_to_pwl" =>
        LET pts == result.g.p_cost
            n   == call.n_points
        IN  /\ result.out = "returned"
            /\ result.g.cost_model = "pwl"
            /\ Len(pts) = n
            /\ \A k \in 1..(n - 1) : pts[k][1] < pts[k + 1][1]
            /\ \A k \in 1..n : pts[k][2] = Horner(call.g.p_cost, pts[k][1])
            /\ pts[n][1] = call.g.p_max

(***************************************************************************)
(* The objective callback of pdipm_qp, checked under SpecFn.               *)
(***************************************************************************)
\* C27: called as ipm_f(x), the objective callback of pdipm_qp returns the
\* pair (0.5 * x' * H * x + c' * x, H * x + c) for the H and c given to
\* pdipm_qp.
C27_ObjectiveCallbackContract ==
    result.op = "ipm_f" =>
        /\ result.ret.out = "returned"
        /\ result.ret.first = (call.H \div 2) * call.x * call.x + call.c * call.x
        /\ result.ret.second = call.H * call.x + call.c

(***************************************************************************)
(* The initialisation of z and mu in pdipm, checked under SpecFn.          *)
(***************************************************************************)
\* C28: after the initialisation z_k = max(z0, -g_k) for every row, and
\* mu_k = z0 for every row with gamma / z_k <= z0: raising z_k to -g_k does
\* not change mu.
C28_SlackAndMultiplierIndependent ==
    result.op = "init_z" =>
        \A k \in DOMAIN call.g :
            /\ result.z[k] = Num(IF -call.g[k] > z0 THEN -call.g[k] ELSE z0)
            /\ (result.z[k][2] <= z0 * result.z[k][1]) => result.mu[k] = Num(z0)

(***************************************************************************)
(* Branch.__init__, checked under SpecFn.                                  *)
(***************************************************************************)
\* C29: after Branch(from_bus, to_bus, ang_min=a, ang_max=b) the branch has
\* the attributes ang_min and ang_max, equal to a and b.
C29_BothAngleLimitsStored ==
    result.op = "Branch" =>
        /\ "ang_min" \in DOMAIN result.branch
        /\ "ang_max" \in DOMAIN result.branch
        /\ result.branch.ang_min = call.ang_min
        /\ result.branch.ang_max = call.ang_max

(***************************************************************************)
(* Case.get_admittance_matrix(phase_shift=False), checked under SpecFn.    *)
(***************************************************************************)
\* C30: get_admittance_matrix with phase_shift=False returns, and returns
\* the Y, Ysrc and Ytgt that the default call returns for the same case
\* with every phase_shift set to 0.
C30_NoShiftSameAsZeroShift ==
    result.op = "Y_noshift" =>
        LET zeroed == [k \in DOMAIN call.branches |->
                         [call.branches[k] EXCEPT !.tap = <<@[1], 0>>]]
            default == AdmittanceValue(zeroed, call.g_shunt)
        IN  /\ result.out = "returned"
            /\ result.Y = default.Y
            /\ result.Ysrc = default.Ysrc
            /\ result.Ytgt = default.Ytgt

====
